---- MODULE Spec2Model ----
(***************************************************************************)
(* Model of minya/logger (logger.go): a process-wide facade over zerolog.  *)
(*                                                                         *)
(* The package keeps four pieces of global state: DefaultLogger, zerolog's *)
(* global level, zerolog's TimeFieldFormat and defaultConfig.WithCaller,   *)
(* plus log.Logger and the sync.Once that guards InitLogger.               *)
(*                                                                         *)
(* Three specifications share the definitions below:                       *)
(*   Spec      one goroutine calling the API, each call one atomic action  *)
(*   SpecArgs  the level functions applied to drawn (msg, args, err)       *)
(*   SpecConc  goroutines racing through InitLogger statement by statement *)
(*             next to one goroutine inside a level function               *)
(***************************************************************************)
EXTENDS Integers, Sequences, FiniteSets, TLC

\* ------------------------------------------------------------------ bounds
MaxMsgLen == 2      \* longest message template drawn in SpecArgs
MaxArgs == 3        \* longest variadic argument list drawn in SpecArgs
MaxApiArgs == 2     \* longest argument list a call of Spec passes
NInit == 2          \* goroutines calling InitLogger in SpecConc

\* --------------------------------------------------- zerolog level numbers
DebugLevel == 0
InfoLevel == 1
WarnLevel == 2
ErrorLevel == 3
FatalLevel == 4
PanicLevel == 5
Disabled == 7

\* ------------------------------------------------------------------ values
\* A Go interface{} value: its dynamic type and its %v rendering.
StrV(s) == [kind |-> "string", s |-> s]
IntV(s) == [kind |-> "int", s |-> s]
NilErr == [kind |-> "nil", s |-> ""]
SomeErr == [kind |-> "error", s |-> "boom"]

SeqUpTo(S, n) == UNION {[1..k -> S] : k \in 0..n}

\* strings.ToLower, letter by letter.
ToLowerChar(c) ==
    CASE c = "A" -> "a" [] c = "B" -> "b" [] c = "C" -> "c" [] c = "D" -> "d"
      [] c = "E" -> "e" [] c = "F" -> "f" [] c = "G" -> "g" [] c = "H" -> "h"
      [] c = "I" -> "i" [] c = "J" -> "j" [] c = "K" -> "k" [] c = "L" -> "l"
      [] c = "M" -> "m" [] c = "N" -> "n" [] c = "O" -> "o" [] c = "P" -> "p"
      [] c = "Q" -> "q" [] c = "R" -> "r" [] c = "S" -> "s" [] c = "T" -> "t"
      [] c = "U" -> "u" [] c = "V" -> "v" [] c = "W" -> "w" [] c = "X" -> "x"
      [] c = "Y" -> "y" [] c = "Z" -> "z" [] OTHER -> c

ToLower(s) == [i \in 1..Len(s) |-> ToLowerChar(s[i])]

\* The Levels table: lower-case name -> zerolog level.
Levels ==
    [name \in {<<"d","e","b","u","g">>, <<"i","n","f","o">>, <<"w","a","r","n">>,
               <<"e","r","r","o","r">>, <<"f","a","t","a","l">>,
               <<"p","a","n","i","c">>, <<"d","i","s","a","b","l","e","d">>} |->
        CASE name = <<"d","e","b","u","g">> -> DebugLevel
          [] name = <<"i","n","f","o">> -> InfoLevel
          [] name = <<"w","a","r","n">> -> WarnLevel
          [] name = <<"e","r","r","o","r">> -> ErrorLevel
          [] name = <<"f","a","t","a","l">> -> FatalLevel
          [] name = <<"p","a","n","i","c">> -> PanicLevel
          [] OTHER -> Disabled]

\* ----------------------------------------------------------- configuration
\* Level strings a caller may pass: exact, mixed case, empty, unknown.
LevelStrings ==
    {<<>>, <<"d","e","b","u","g">>, <<"I","N","F","O">>, <<"W","a","r","n">>,
     <<"W","A","R","N">>, <<"e","r","r","o","r">>, <<"F","a","t","a","l">>,
     <<"p","a","n","i","c">>, <<"d","i","s","a","b","l","e","d">>,
     <<"t","r","a","c","e">>}

Config ==
    [Level : LevelStrings, Pretty : BOOLEAN, WithCaller : BOOLEAN,
     TimeFormat : {"", "Kitchen"}, Output : {"nil", "buf"}]

\* defaultConfig as declared (its WithCaller is the variable WithCaller).
defaultConfig == [TimeFormat |-> "RFC3339", Output |-> "stderr"]

VARIABLES
    DefaultLogger,    \* the package-level zerolog.Logger
    logLogger,        \* zerolog/log.Logger
    TimeFieldFormat,  \* zerolog.TimeFieldFormat
    gLevel,           \* zerolog's global level (SetGlobalLevel / GlobalLevel)
    WithCaller,       \* defaultConfig.WithCaller
    done,             \* initOnce: the done flag
    mu,               \* initOnce: holder of the mutex, 0 when free
    exited,           \* os.Exit(1) has been called
    last,             \* the last API call of the calling goroutine and its effects
    firstCfg,         \* <<c>> once InitLogger(c) was the first InitLogger call
    in,               \* SpecArgs: the drawn inputs of the level functions
    pc,               \* SpecConc: position of each goroutine inside InitLogger
    cfg,              \* SpecConc: the configuration each goroutine passes
    runs,             \* SpecConc: goroutines that entered the initialization body
    lpc,              \* SpecConc: position of the logging goroutine
    obs               \* SpecConc: what the logging goroutine has read so far

globals == <<DefaultLogger, logLogger, TimeFieldFormat, gLevel, WithCaller>>
once == <<done, mu>>
conc == <<pc, cfg, runs, lpc, obs>>
vars == <<DefaultLogger, logLogger, TimeFieldFormat, gLevel, WithCaller, done, mu,
          exited, last, firstCfg, in, pc, cfg, runs, lpc, obs>>

\* ------------------------------------------------------- zerolog: handles
\* zerolog.New(w): a handle on writer w, no context fields, no hooks.
New(w) == [w |-> w, context |-> <<>>, hooks |-> <<>>]

\* Logger.With().Timestamp().Logger(): a new handle with the timestamp hook.
Timestamp(l) == [l EXCEPT !.hooks = Append(@, "timestamp")]

\* Context.Str / Context.Interface: a new handle with one more context field.
CtxField(l, key, value) ==
    [l EXCEPT !.context = Append(@, [key |-> key, value |-> value])]

\* The writer InitLogger builds: ConsoleWriter{Out, TimeFormat} or the raw output.
Writer(c) ==
    IF c.Pretty
    THEN [Out |-> c.Output, Console |-> TRUE, TimeFormat |-> c.TimeFormat]
    ELSE [Out |-> c.Output, Console |-> FALSE, TimeFormat |-> ""]

\* init(): zerolog.New(os.Stderr).With().Timestamp().Logger()
BootLogger == Timestamp(New([Out |-> "stderr", Console |-> FALSE, TimeFormat |-> ""]))

\* ------------------------------------------------ InitLogger: the closure
\* Lines 59-64: missing Output and TimeFormat take the defaults.
FillDefaults(c) ==
    [c EXCEPT !.Output = IF c.Output = "nil" THEN defaultConfig.Output ELSE @,
              !.TimeFormat = IF c.TimeFormat = "" THEN defaultConfig.TimeFormat ELSE @]

\* Lines 70-73: info unless the lower-cased string is a key of Levels.
ResolveLevelExact(level) ==
    IF level \in DOMAIN Levels THEN Levels[level] ELSE InfoLevel

ResolveLevel(level) ==
    IF ToLower(level) \in DOMAIN Levels THEN Levels[ToLower(level)] ELSE InfoLevel

\* Lines 77-88: the handle built from the (defaulted) configuration.
NewLogger(c) == Timestamp(New(Writer(FillDefaults(c))))

\* -------------------------------------------------------- zerolog: events
LevelName(lvl) ==
    CASE lvl = DebugLevel -> "debug" [] lvl = InfoLevel -> "info"
      [] lvl = WarnLevel -> "warn" [] lvl = ErrorLevel -> "error"
      [] lvl = FatalLevel -> "fatal" [] OTHER -> "panic"

\* Logger.should: a handle made by zerolog.New passes its own level check,
\* so the global level alone decides.
should(lvl, glevel) == lvl >= glevel

\* The nil *Event: every method on it is a no-op.
NilEvent ==
    [enabled |-> FALSE, w |-> [Out |-> "", Console |-> FALSE, TimeFormat |-> ""],
     buf |-> <<>>, hooks |-> <<>>]

\* Logger.newEvent for an enabled level: the level field, then the context.
newEvent(l, lvl) ==
    [enabled |-> TRUE, w |-> l.w,
     buf |-> <<[key |-> "level", value |-> StrV(LevelName(lvl))]>> \o l.context,
     hooks |-> l.hooks]

\* Logger.Debug/Info/Warn/Error: nil when the level is gated.
OpenEvent(l, lvl, glevel) == IF should(lvl, glevel) THEN newEvent(l, lvl) ELSE NilEvent

\* Event.Str / Event.Interface.
EvField(e, key, value) ==
    IF e.enabled THEN [e EXCEPT !.buf = Append(@, [key |-> key, value |-> value])] ELSE e

\* Event.Err: a nil error attaches nothing.
EvErr(e, err) == IF err.kind = "nil" THEN e ELSE EvField(e, "error", StrV(err.s))

\* Event.msg on an enabled event: hooks run, then the message field, then the write.
Line(e, message) ==
    [w |-> e.w,
     fields |-> e.buf \o (IF \E i \in 1..Len(e.hooks) : e.hooks[i] = "timestamp"
                          THEN <<[key |-> "time", value |-> StrV("now")]>> ELSE <<>>),
     message |-> message]

\* The keys of a written line, in order ("message" is written for a non-empty one).
LineKeys(ln) ==
    [i \in 1..Len(ln.fields) |-> ln.fields[i].key]
        \o (IF ln.message # <<>> THEN <<"message">> ELSE <<>>)

\* ----------------------------------------------------------------- fmt
\* fmt.Sprint of one value.
Sprint(v) == v.s

\* strings.Contains(msg, "%")
ContainsPercent(msg) == \E i \in 1..Len(msg) : msg[i] = "%"

\* What fmt prints for the operands no verb consumed.
RECURSIVE Extra(_, _)
Extra(args, a) ==
    IF a > Len(args) THEN <<>>
    ELSE <<args[a].kind, "=", args[a].s>>
             \o (IF a < Len(args) THEN <<", ">> ELSE <<>>) \o Extra(args, a + 1)

\* fmt.Sprintf over the verbs the templates here can hold: %d and %%.
RECURSIVE SprintfFrom(_, _, _, _)
SprintfFrom(f, args, i, a) ==
    IF i > Len(f)
    THEN IF a <= Len(args) THEN <<"%!(EXTRA ">> \o Extra(args, a) \o <<")">> ELSE <<>>
    ELSE IF f[i] # "%" THEN <<f[i]>> \o SprintfFrom(f, args, i + 1, a)
    ELSE IF i = Len(f) THEN <<"%!(NOVERB)">> \o SprintfFrom(f, args, i + 1, a)
    ELSE IF f[i + 1] = "%" THEN <<"%">> \o SprintfFrom(f, args, i + 2, a)
    ELSE IF a > Len(args) THEN <<"%!d(MISSING)">> \o SprintfFrom(f, args, i + 2, a)
    ELSE IF args[a].kind = "int" THEN <<args[a].s>> \o SprintfFrom(f, args, i + 2, a + 1)
    ELSE <<"%!d(", args[a].kind, "=", args[a].s, ")">> \o SprintfFrom(f, args, i + 2, a + 1)

Sprintf(f, args) == SprintfFrom(f, args, 1, 1)

\* -------------------------------------------------------------- logger.go
\* runtime.Caller(2) either resolves the call site (ok) or does not.
CallSite == "main.go:10"

\* addCallerInfo: attaches caller only when WithCaller is set and the frame resolved.
addCallerInfoTwice(evt, withCaller, ok) ==
    IF withCaller /\ ok
    THEN EvField(EvField(evt, "caller", StrV(CallSite)), "caller", StrV(CallSite))
    ELSE evt

addCallerInfo(evt, withCaller, ok) ==
    IF withCaller /\ ok THEN EvField(evt, "caller", StrV(CallSite)) ELSE evt

\* addCallerToContext: the same on a handle under construction.
addCallerToContext(ctx, withCaller, ok) ==
    IF withCaller /\ ok THEN CtxField(ctx, "caller", StrV(CallSite)) ELSE ctx

\* The loop of processArgs: i runs over the key positions in steps of two and a
\* key without a partner is skipped.
RECURSIVE pairLoopStride1(_, _, _)
pairLoopStride1(evt, args, i) ==
    IF i > Len(args) THEN evt
    ELSE IF i + 1 <= Len(args)
         THEN pairLoopStride1(EvField(evt, Sprint(args[i]), args[i + 1]), args, i + 1)
         ELSE pairLoopStride1(evt, args, i + 1)

RECURSIVE pairLoop(_, _, _)
pairLoop(evt, args, i) ==
    IF i > Len(args) THEN evt
    ELSE IF i + 1 <= Len(args)
         THEN pairLoop(EvField(evt, Sprint(args[i]), args[i + 1]), args, i + 2)
         ELSE pairLoop(evt, args, i + 2)

\* processArgs: the event after the branch taken and the finalizer calls made on it.
processArgsNoSniff(evt, msg, args) ==
    IF Len(args) > 0
    THEN [evt |-> pairLoop(evt, args, 1), calls |-> <<[fn |-> "Msg", format |-> msg, args |-> <<>>]>>]
    ELSE [evt |-> evt, calls |-> <<[fn |-> "Msg", format |-> msg, args |-> <<>>]>>]

processArgs(evt, msg, args) ==
    IF Len(args) > 0 /\ ContainsPercent(msg)
    THEN [evt |-> evt, calls |-> <<[fn |-> "Msgf", format |-> msg, args |-> args]>>]
    ELSE IF Len(args) > 0
    THEN [evt |-> pairLoop(evt, args, 1), calls |-> <<[fn |-> "Msg", format |-> msg, args |-> <<>>]>>]
    ELSE [evt |-> evt, calls |-> <<[fn |-> "Msg", format |-> msg, args |-> <<>>]>>]

\* Event.Msg / Event.Msgf: the lines written, one per finalizer call on a non-nil event.
Written(r) ==
    IF r.evt.enabled
    THEN [i \in 1..Len(r.calls) |->
            Line(r.evt, IF r.calls[i].fn = "Msgf"
                        THEN Sprintf(r.calls[i].format, r.calls[i].args)
                        ELSE r.calls[i].format)]
    ELSE <<>>

\* ------------------------------------------------------- the API, atomically
NoHandle == New([Out |-> "", Console |-> FALSE, TimeFormat |-> ""])

\* The record kept of a call: its inputs, the finalizer calls processArgs made,
\* the lines written, the order of the process-level effects, the handle returned,
\* and for InitLogger whether it was the first call or a later one with the same
\* or another configuration.
NoCall ==
    [op |-> "none", msg |-> <<>>, args |-> <<>>, err |-> NilErr, ok |-> FALSE,
     processed |-> FALSE, calls |-> <<>>, lines |-> <<>>, effects |-> <<>>,
     handle |-> NoHandle, note |-> ""]

\* The done callback Logger.Fatal installs: os.Exit(1).
FatalDoneReturns == <<>>

FatalDone == <<"exit">>

\* What a level function does once its event is opened: addCallerInfo,
\* processArgs, and the write of every finalizer call.
LogCall(op, evt0, err, msg, args, withCaller, ok, after) ==
    LET r == processArgs(addCallerInfo(evt0, withCaller, ok), msg, args)
        lines == Written(r)
    IN  [NoCall EXCEPT !.op = op, !.msg = msg, !.args = args, !.err = err, !.ok = ok,
                       !.processed = TRUE, !.calls = r.calls, !.lines = lines,
                       !.effects = [i \in 1..Len(lines) |-> "write"] \o after]

Exits(call) == \E i \in 1..Len(call.effects) : call.effects[i] = "exit"

Debug(msg, args, ok) ==
    /\ ~exited
    /\ last' = LogCall("Debug", OpenEvent(DefaultLogger, DebugLevel, gLevel),
                       NilErr, msg, args, WithCaller, ok, <<>>)
    /\ UNCHANGED <<globals, once, exited, firstCfg, in, conc>>

Info(msg, args, ok) ==
    /\ ~exited
    /\ last' = LogCall("Info", OpenEvent(DefaultLogger, InfoLevel, gLevel),
                       NilErr, msg, args, WithCaller, ok, <<>>)
    /\ UNCHANGED <<globals, once, exited, firstCfg, in, conc>>

Warn(msg, args, ok) ==
    /\ ~exited
    /\ last' = LogCall("Warn", OpenEvent(DefaultLogger, WarnLevel, gLevel),
                       NilErr, msg, args, WithCaller, ok, <<>>)
    /\ UNCHANGED <<globals, once, exited, firstCfg, in, conc>>

Error(err, msg, args, ok) ==
    /\ ~exited
    /\ last' = LogCall("Error", EvErr(OpenEvent(DefaultLogger, ErrorLevel, gLevel), err),
                       err, msg, args, WithCaller, ok, <<>>)
    /\ UNCHANGED <<globals, once, exited, firstCfg, in, conc>>

\* Logger.Fatal runs the done callback at once when the level is gated, so the
\* process exits inside DefaultLogger.Fatal(), before Err and processArgs;
\* otherwise Event.msg runs it after the write.
Fatal(err, msg, args, ok) ==
    /\ ~exited
    /\ last' = IF should(FatalLevel, gLevel)
               THEN LogCall("Fatal", EvErr(newEvent(DefaultLogger, FatalLevel), err),
                            err, msg, args, WithCaller, ok, FatalDone)
               ELSE [NoCall EXCEPT !.op = "Fatal", !.msg = msg, !.args = args,
                                   !.err = err, !.ok = ok, !.effects = FatalDone]
    /\ exited' = Exits(last')
    /\ UNCHANGED <<globals, once, firstCfg, in, conc>>

\* sync.Once.Do: the closure is skipped once done is set.
onceDoneNever(d) == FALSE

onceDone(d) == d

\* The global state the closure of InitLogger leaves behind.
InitLoggerState(c) ==
    [DefaultLogger |-> NewLogger(c), logLogger |-> NewLogger(c),
     TimeFieldFormat |-> FillDefaults(c).TimeFormat,
     gLevel |-> ResolveLevel(c.Level), WithCaller |-> c.WithCaller]

InitLogger(c) ==
    /\ ~exited
    /\ IF onceDone(done)
       THEN UNCHANGED <<globals, done>>
       ELSE /\ TimeFieldFormat' = InitLoggerState(c).TimeFieldFormat
            /\ gLevel' = InitLoggerState(c).gLevel
            /\ WithCaller' = InitLoggerState(c).WithCaller
            /\ DefaultLogger' = InitLoggerState(c).DefaultLogger
            /\ logLogger' = InitLoggerState(c).logLogger
            /\ done' = TRUE
    /\ firstCfg' = IF firstCfg = <<>> THEN <<c>> ELSE firstCfg
    /\ last' = [NoCall EXCEPT !.op = "InitLogger",
                               !.note = IF firstCfg = <<>> THEN "first"
                                        ELSE IF firstCfg[1] = c THEN "same" ELSE "other"]
    /\ UNCHANGED <<mu, exited, in, conc>>

\* GetLogger: a derived handle; DefaultLogger itself is only read.
GetLoggerInPlace(component, ok) ==
    /\ ~exited
    /\ last' = [NoCall EXCEPT !.op = "GetLogger", !.ok = ok, !.args = <<StrV(component)>>,
                  !.handle = CtxField(addCallerToContext(DefaultLogger, WithCaller, ok),
                                      "component", StrV(component))]
    /\ DefaultLogger' = last'.handle
    /\ UNCHANGED <<logLogger, TimeFieldFormat, gLevel, WithCaller, once, exited,
                   firstCfg, in, conc>>

GetLogger(component, ok) ==
    /\ ~exited
    /\ last' = [NoCall EXCEPT !.op = "GetLogger", !.ok = ok, !.args = <<StrV(component)>>,
                  !.handle = CtxField(addCallerToContext(DefaultLogger, WithCaller, ok),
                                      "component", StrV(component))]
    /\ UNCHANGED <<globals, once, exited, firstCfg, in, conc>>

WithField(key, value, ok) ==
    /\ ~exited
    /\ last' = [NoCall EXCEPT !.op = "WithField", !.ok = ok, !.args = <<StrV(key), value>>,
                  !.handle = CtxField(addCallerToContext(DefaultLogger, WithCaller, ok),
                                      key, value)]
    /\ UNCHANGED <<globals, once, exited, firstCfg, in, conc>>

\* ------------------------------------------------------------ input sets
MsgChars == {"%", "d"}
ArgVals == {StrV("user"), StrV("caller"), IntV("7")}
Errs == {NilErr, SomeErr}
ApiMsgs == {<<"d">>, <<"%", "d">>}
ApiArgs == SeqUpTo({StrV("user")}, MaxApiArgs)
Components == {"db", "http"}

NoInput == [msg |-> <<>>, args |-> <<>>, err |-> NilErr, ok |-> FALSE]
Inputs == [msg : SeqUpTo(MsgChars, MaxMsgLen), args : SeqUpTo(ArgVals, MaxArgs),
           err : Errs, ok : BOOLEAN]

NoObs == [lvl |-> DebugLevel, logger |-> NoHandle, level |-> DebugLevel, withCaller |-> FALSE]

\* The goroutines of SpecConc are idle in the other specifications.
ConcIdle ==
    /\ pc = [p \in 1..NInit |-> "idle"]
    /\ cfg = <<>>
    /\ runs = {}
    /\ lpc = "idle"
    /\ obs = NoObs

\* The state init() leaves: the bootstrap handle, zerolog's default global level.
Boot ==
    /\ DefaultLogger = BootLogger
    /\ logLogger = BootLogger
    /\ TimeFieldFormat = "RFC3339"
    /\ gLevel = DebugLevel
    /\ WithCaller = FALSE
    /\ done = FALSE
    /\ mu = 0
    /\ exited = FALSE
    /\ last = NoCall
    /\ firstCfg = <<>>

Init ==
    /\ Boot
    /\ in = NoInput
    /\ ConcIdle

Next ==
    \/ \E c \in Config : InitLogger(c)
    \/ \E m \in ApiMsgs, a \in ApiArgs, ok \in BOOLEAN : Debug(m, a, ok)
    \/ \E m \in ApiMsgs, a \in ApiArgs, ok \in BOOLEAN : Info(m, a, ok)
    \/ \E m \in ApiMsgs, a \in ApiArgs, ok \in BOOLEAN : Warn(m, a, ok)
    \/ \E e \in Errs, m \in ApiMsgs, a \in ApiArgs, ok \in BOOLEAN : Error(e, m, a, ok)
    \/ \E e \in Errs, m \in ApiMsgs, a \in ApiArgs, ok \in BOOLEAN : Fatal(e, m, a, ok)
    \/ \E comp \in Components, ok \in BOOLEAN : GetLogger(comp, ok)
    \/ \E k \in Components, v \in {IntV("7")}, ok \in BOOLEAN : WithField(k, v, ok)

Spec == Init /\ [][Next]_vars

\* ------------------------------------------- SpecArgs: the argument shapes
\* Configurations that gate some, all or (with the bootstrap level) none of the
\* level functions, with and without caller annotation.
ArgConfigs ==
    [Level : {<<"e","r","r","o","r">>, <<"p","a","n","i","c">>}, Pretty : {FALSE},
     WithCaller : BOOLEAN, TimeFormat : {""}, Output : {"buf"}]

InitArgs ==
    /\ Boot
    /\ in \in Inputs
    /\ ConcIdle

NextArgs ==
    \/ \E c \in ArgConfigs : InitLogger(c)
    \/ Debug(in.msg, in.args, in.ok)
    \/ Info(in.msg, in.args, in.ok)
    \/ Warn(in.msg, in.args, in.ok)
    \/ Error(in.err, in.msg, in.args, in.ok)
    \/ Fatal(in.err, in.msg, in.args, in.ok)

SpecArgs == InitArgs /\ [][NextArgs]_vars

\* ------------------------------- SpecConc: InitLogger, statement by statement
\* sync.Once.Do, fast path: a set done flag returns at once, otherwise doSlow.
OnceDo(p) ==
    /\ pc[p] = "idle"
    /\ pc' = [pc EXCEPT ![p] = IF done THEN "returned" ELSE "lock"]
    /\ UNCHANGED <<globals, once, exited, last, firstCfg, in, cfg, runs, lpc, obs>>

\* doSlow: o.m.Lock() waits for the mutex.
OnceLockNoWait(p) ==
    /\ pc[p] = "lock"
    /\ mu' = p
    /\ pc' = [pc EXCEPT ![p] = "check"]
    /\ UNCHANGED <<globals, done, exited, last, firstCfg, in, cfg, runs, lpc, obs>>

OnceLock(p) ==
    /\ pc[p] = "lock"
    /\ mu = 0
    /\ mu' = p
    /\ pc' = [pc EXCEPT ![p] = "check"]
    /\ UNCHANGED <<globals, done, exited, last, firstCfg, in, cfg, runs, lpc, obs>>

\* doSlow: the second look at done, under the mutex; the closure runs when it is
\* still clear, and done is stored only after the closure (defer o.done.Store(1)).
OnceCheckStoreFirst(p) ==
    /\ pc[p] = "check"
    /\ IF done
       THEN pc' = [pc EXCEPT ![p] = "unlock"] /\ UNCHANGED <<runs, done>>
       ELSE pc' = [pc EXCEPT ![p] = "timefmt"] /\ runs' = runs \cup {p} /\ done' = TRUE
    /\ UNCHANGED <<globals, mu, exited, last, firstCfg, in, cfg, lpc, obs>>

OnceCheck(p) ==
    /\ pc[p] = "check"
    /\ IF done
       THEN pc' = [pc EXCEPT ![p] = "unlock"] /\ UNCHANGED runs
       ELSE pc' = [pc EXCEPT ![p] = "timefmt"] /\ runs' = runs \cup {p}
    /\ UNCHANGED <<globals, once, exited, last, firstCfg, in, cfg, lpc, obs>>

\* Line 67: zerolog.TimeFieldFormat = cfg.TimeFormat (after the defaults).
SetTimeFieldFormat(p) ==
    /\ pc[p] = "timefmt"
    /\ TimeFieldFormat' = FillDefaults(cfg[p]).TimeFormat
    /\ pc' = [pc EXCEPT ![p] = "level"]
    /\ UNCHANGED <<DefaultLogger, logLogger, gLevel, WithCaller, once, exited, last,
                   firstCfg, in, cfg, runs, lpc, obs>>

\* Line 74: zerolog.SetGlobalLevel(level).
SetGlobalLevel(p) ==
    /\ pc[p] = "level"
    /\ gLevel' = ResolveLevel(cfg[p].Level)
    /\ pc' = [pc EXCEPT ![p] = "caller"]
    /\ UNCHANGED <<DefaultLogger, logLogger, TimeFieldFormat, WithCaller, once, exited,
                   last, firstCfg, in, cfg, runs, lpc, obs>>

\* Line 92: defaultConfig.WithCaller = cfg.WithCaller.
SetWithCaller(p) ==
    /\ pc[p] = "caller"
    /\ WithCaller' = cfg[p].WithCaller
    /\ pc' = [pc EXCEPT ![p] = "logger"]
    /\ UNCHANGED <<DefaultLogger, logLogger, TimeFieldFormat, gLevel, once, exited,
                   last, firstCfg, in, cfg, runs, lpc, obs>>

\* Line 96: DefaultLogger = logger.
SetDefaultLogger(p) ==
    /\ pc[p] = "logger"
    /\ DefaultLogger' = NewLogger(cfg[p])
    /\ pc' = [pc EXCEPT ![p] = "loglogger"]
    /\ UNCHANGED <<logLogger, TimeFieldFormat, gLevel, WithCaller, once, exited, last,
                   firstCfg, in, cfg, runs, lpc, obs>>

\* Line 97: log.Logger = logger; the closure returns.
SetLogLogger(p) ==
    /\ pc[p] = "loglogger"
    /\ logLogger' = NewLogger(cfg[p])
    /\ pc' = [pc EXCEPT ![p] = "store"]
    /\ UNCHANGED <<DefaultLogger, TimeFieldFormat, gLevel, WithCaller, once, exited,
                   last, firstCfg, in, cfg, runs, lpc, obs>>

\* doSlow: the deferred o.done.Store(1).
OnceStore(p) ==
    /\ pc[p] = "store"
    /\ done' = TRUE
    /\ pc' = [pc EXCEPT ![p] = "unlock"]
    /\ UNCHANGED <<globals, mu, exited, last, firstCfg, in, cfg, runs, lpc, obs>>

\* doSlow: the deferred o.m.Unlock(); InitLogger returns.
OnceUnlock(p) ==
    /\ pc[p] = "unlock"
    /\ mu' = 0
    /\ pc' = [pc EXCEPT ![p] = "returned"]
    /\ UNCHANGED <<globals, done, exited, last, firstCfg, in, cfg, runs, lpc, obs>>

\* Configurations of the racing callers: every setting takes two values.
ConcConfigs ==
    [Level : {<<"d","e","b","u","g">>, <<"e","r","r","o","r">>}, Pretty : BOOLEAN,
     WithCaller : BOOLEAN, TimeFormat : {""}, Output : {"nil", "buf"}]

InitConc ==
    /\ Boot
    /\ in = NoInput
    /\ pc = [p \in 1..NInit |-> "idle"]
    /\ cfg \in [1..NInit -> ConcConfigs]
    /\ \A p, q \in 1..NInit : p # q => cfg[p] # cfg[q]
    /\ runs = {}
    /\ lpc = "idle"
    /\ obs = NoObs

NextConc ==
    \E p \in 1..NInit :
        \/ OnceDo(p)
        \/ OnceLock(p)
        \/ OnceCheck(p)
        \/ SetTimeFieldFormat(p)
        \/ SetGlobalLevel(p)
        \/ SetWithCaller(p)
        \/ SetDefaultLogger(p)
        \/ SetLogLogger(p)
        \/ OnceStore(p)
        \/ OnceUnlock(p)

SpecConc == InitConc /\ [][NextConc]_vars

\* ------------------- SpecRace: a level function next to the one InitLogger
\* Debug/Info/Warn/Error read, in this order and with no lock: DefaultLogger (to
\* open the event), the global level (Logger.should), defaultConfig.WithCaller
\* (addCallerInfo).  InitLogger writes the three under initOnce's mutex only, so
\* each read races with the corresponding write and may see either value.
LevelOp(lvl) ==
    CASE lvl = DebugLevel -> "Debug" [] lvl = InfoLevel -> "Info"
      [] lvl = WarnLevel -> "Warn" [] OTHER -> "Error"

LogReadLogger(lvl) ==
    /\ lpc = "idle"
    /\ obs' = [obs EXCEPT !.lvl = lvl, !.logger = DefaultLogger]
    /\ lpc' = "should"
    /\ UNCHANGED <<globals, once, exited, last, firstCfg, in, pc, cfg, runs>>

LogReadLevel ==
    /\ lpc = "should"
    /\ obs' = [obs EXCEPT !.level = gLevel]
    /\ lpc' = "caller"
    /\ UNCHANGED <<globals, once, exited, last, firstCfg, in, pc, cfg, runs>>

LogReadWithCaller ==
    /\ lpc = "caller"
    /\ obs' = [obs EXCEPT !.withCaller = WithCaller]
    /\ lpc' = "emit"
    /\ UNCHANGED <<globals, once, exited, last, firstCfg, in, pc, cfg, runs>>

LogEmit ==
    /\ lpc = "emit"
    /\ last' = LogCall(LevelOp(obs.lvl), OpenEvent(obs.logger, obs.lvl, obs.level),
                       NilErr, <<"d">>, <<>>, obs.withCaller, TRUE, <<>>)
    /\ lpc' = "done"
    /\ UNCHANGED <<globals, once, exited, firstCfg, in, pc, cfg, runs, obs>>

InitRace ==
    /\ Boot
    /\ in = NoInput
    /\ pc = [p \in {1} |-> "idle"]
    /\ cfg \in [{1} -> Config]
    /\ runs = {}
    /\ lpc = "idle"
    /\ obs = NoObs

NextRace ==
    \/ OnceDo(1)
    \/ OnceLock(1)
    \/ OnceCheck(1)
    \/ SetTimeFieldFormat(1)
    \/ SetGlobalLevel(1)
    \/ SetWithCaller(1)
    \/ SetDefaultLogger(1)
    \/ SetLogLogger(1)
    \/ OnceStore(1)
    \/ OnceUnlock(1)
    \/ \E lvl \in {DebugLevel, InfoLevel, WarnLevel, ErrorLevel} : LogReadLogger(lvl)
    \/ LogReadLevel
    \/ LogReadWithCaller
    \/ LogEmit

SpecRace == InitRace /\ [][NextRace]_vars

\* ======================================================================
\* Properties
\* ======================================================================
GlobalState ==
    [DefaultLogger |-> DefaultLogger, logLogger |-> logLogger,
     TimeFieldFormat |-> TimeFieldFormat, gLevel |-> gLevel, WithCaller |-> WithCaller]

BootState ==
    [DefaultLogger |-> BootLogger, logLogger |-> BootLogger,
     TimeFieldFormat |-> "RFC3339", gLevel |-> DebugLevel, WithCaller |-> FALSE]

LevelOps == {"Debug", "Info", "Warn", "Error", "Fatal"}

Severity(op) ==
    CASE op = "Debug" -> DebugLevel [] op = "Info" -> InfoLevel
      [] op = "Warn" -> WarnLevel [] op = "Error" -> ErrorLevel [] OTHER -> FatalLevel

\* C1: after any sequence of InitLogger calls the global state is the one the
\* first call's configuration resolves to (the bootstrap state before any call),
\* and every InitLogger call after the first leaves the global state unchanged.
C1_FirstCallWins ==
    /\ [](IF firstCfg = <<>> THEN GlobalState = BootState /\ ~done
          ELSE GlobalState = InitLoggerState(firstCfg[1]) /\ done)
    /\ [][(firstCfg # <<>> /\ last'.op = "InitLogger") => UNCHANGED globals]_vars

\* C1 witness: a later InitLogger call with another configuration has returned.
C1_Witness ==
    /\ last.op = "InitLogger"
    /\ last.note = "other"
    /\ GlobalState = InitLoggerState(firstCfg[1])

\* Upper- and lower-case forms of the letters of the level names.
CasePairs ==
    {<<"A","a">>, <<"B","b">>, <<"C","c">>, <<"D","d">>, <<"E","e">>, <<"F","f">>,
     <<"G","g">>, <<"I","i">>, <<"L","l">>, <<"N","n">>, <<"O","o">>, <<"P","p">>,
     <<"R","r">>, <<"S","s">>, <<"T","t">>, <<"U","u">>, <<"W","w">>}

EqualFold(s, name) ==
    /\ Len(s) = Len(name)
    /\ \A i \in 1..Len(s) : s[i] = name[i] \/ <<s[i], name[i]>> \in CasePairs

\* The minimum level a level string stands for: the table entry whose name it
\* equals ignoring case, info when there is none.
MinLevelOf(s) ==
    IF \E name \in DOMAIN Levels : EqualFold(s, name)
    THEN Levels[CHOOSE name \in DOMAIN Levels : EqualFold(s, name)]
    ELSE InfoLevel

\* C6: once InitLogger(cfg) has taken effect, a level function writes output
\* exactly when its severity is at or above the level cfg.Level stands for
\* (case-insensitive table lookup, info for an empty or unknown string).
C6_LevelGating ==
    (firstCfg # <<>> /\ last.op \in LevelOps) =>
        (Len(last.lines) > 0 <=> Severity(last.op) >= MinLevelOf(firstCfg[1].Level))

\* C6 witness: configured with "WARN", Warn has written a line.
C6_Witness ==
    /\ firstCfg # <<>>
    /\ firstCfg[1].Level = <<"W","A","R","N">>
    /\ last.op = "Warn"
    /\ Len(last.lines) = 1

\* C7 as stated: every Fatal call, at every configured minimum level, writes its
\* event and then exits.
C7_FatalAlwaysEmits ==
    last.op = "Fatal" => last.effects = <<"write", "exit">>

\* C7 amended: every Fatal call exits the process and nothing happens after it;
\* at a minimum level of fatal or below the event is written first and the exit
\* follows the write, at panic or disabled the process exits with nothing written.
C7_FatalExits ==
    /\ [](last.op = "Fatal" =>
            /\ exited
            /\ last.effects = IF gLevel <= FatalLevel THEN <<"write", "exit">>
                              ELSE <<"exit">>)
    /\ [][exited => UNCHANGED vars]_vars

\* C7 witness: with minimum level fatal, Fatal wrote its line and then exited.
C7_Witness ==
    /\ last.op = "Fatal"
    /\ gLevel = FatalLevel
    /\ Len(last.lines) = 1
    /\ last.effects = <<"write", "exit">>
    /\ exited

HasField(fields, key, value) ==
    \E i \in 1..Len(fields) : fields[i] = [key |-> key, value |-> value]

HasKey(fields, key) == \E i \in 1..Len(fields) : fields[i].key = key

\* C8: the handle GetLogger(component) returns puts component = component on
\* every event opened on it and writes to the sink of the global handle; no
\* GetLogger or WithField call changes the global state, and no event of a
\* global level function takes a component field from the global handle.
C8_GetLoggerDerives ==
    /\ [](/\ last.op = "GetLogger" =>
               /\ \A lvl \in {DebugLevel, InfoLevel, WarnLevel, ErrorLevel, FatalLevel} :
                      HasField(newEvent(last.handle, lvl).buf, "component", last.args[1])
               /\ last.handle.w = DefaultLogger.w
               /\ last.handle.hooks = DefaultLogger.hooks
          /\ ~HasKey(DefaultLogger.context, "component")
          /\ last.op \in LevelOps =>
               \A i \in 1..Len(last.lines) : ~HasKey(last.lines[i].fields, "component"))
    /\ [][last'.op \in {"GetLogger", "WithField"} => UNCHANGED globals]_vars

\* C8 witness: GetLogger returned a handle after an InitLogger that enabled the
\* caller annotation, and the global handle is still the one InitLogger built.
C8_Witness ==
    /\ last.op = "GetLogger"
    /\ firstCfg # <<>>
    /\ WithCaller
    /\ last.ok
    /\ Len(last.handle.context) = 2
    /\ DefaultLogger = NewLogger(firstCfg[1])

\* The fields of a written line that come from the argument list: what lies
\* between the fields the call attaches itself (level, the handle's context,
\* error for a non-nil error, caller when annotated) and the timestamp.
AutoPrefix(call) ==
    1 + Len(DefaultLogger.context)
      + (IF call.op \in {"Error", "Fatal"} /\ call.err # NilErr THEN 1 ELSE 0)
      + (IF WithCaller /\ call.ok THEN 1 ELSE 0)

UserFields(call, ln) == SubSeq(ln.fields, AutoPrefix(call) + 1, Len(ln.fields) - 1)

HasPercent(msg) == \E i \in DOMAIN msg : msg[i] = "%"

\* C4: whenever processArgs runs it makes exactly one finalizer call, chosen in
\* this order: args non-empty and a '%' in the template -> Msgf with the args as
\* printf operands and no field from the args; else args non-empty -> Msg with
\* the template verbatim (the args go to fields); else Msg with the template
\* verbatim and no field, also when the template contains '%'.
C4_ThreeModes ==
    last.processed =>
        /\ Len(last.calls) = 1
        /\ Len(last.lines) <= 1
        /\ IF last.args # <<>> /\ HasPercent(last.msg)
           THEN /\ last.calls[1] = [fn |-> "Msgf", format |-> last.msg, args |-> last.args]
                /\ \A i \in 1..Len(last.lines) :
                      /\ UserFields(last, last.lines[i]) = <<>>
                      /\ last.lines[i].message = Sprintf(last.msg, last.args)
           ELSE /\ last.calls[1] = [fn |-> "Msg", format |-> last.msg, args |-> <<>>]
                /\ \A i \in 1..Len(last.lines) :
                      /\ last.lines[i].message = last.msg
                      /\ last.args = <<>> => UserFields(last, last.lines[i]) = <<>>
                      /\ last.args # <<>> =>
                            Len(UserFields(last, last.lines[i])) = Len(last.args) \div 2

\* C4 witness: a call with two args and the template "%d" was written in printf
\* mode, the second operand reported by fmt as extra.
C4_Witness ==
    /\ last.processed
    /\ last.msg = <<"%", "d">>
    /\ last.args = <<IntV("7"), StrV("user")>>
    /\ Len(last.lines) = 1
    /\ last.lines[1].message = <<"7", "%!(EXTRA ", "string", "=", "user", ")">>

Unique(keys) == \A i, j \in 1..Len(keys) : keys[i] = keys[j] => i = j

PairKeys(args) == [i \in 1..(Len(args) \div 2) |-> args[2 * i - 1].s]

AutoKeys == {"level", "error", "caller", "time", "message"}

Callers == DOMAIN pc

FromBootOr(w) ==
    /\ DefaultLogger \in {BootLogger, InitLoggerState(cfg[w]).DefaultLogger}
    /\ logLogger \in {BootLogger, InitLoggerState(cfg[w]).logLogger}
    /\ TimeFieldFormat \in {"RFC3339", InitLoggerState(cfg[w]).TimeFieldFormat}
    /\ gLevel \in {DebugLevel, InitLoggerState(cfg[w]).gLevel}
    /\ WithCaller \in {FALSE, InitLoggerState(cfg[w]).WithCaller}

\* C2: when the callers of InitLogger race with pairwise distinct configurations,
\* at most one of them ever enters the initialization body and exactly one has
\* once any call returned; every global setting is at all times the bootstrap
\* value or the value from that one caller's configuration, and once all calls
\* have returned the global state is the one that caller's configuration
\* resolves to.
C2_OneWinner ==
    /\ Cardinality(runs) <= 1
    /\ runs = {} => GlobalState = BootState
    /\ \A w \in runs : FromBootOr(w)
    /\ (\E p \in Callers : pc[p] = "returned") => Cardinality(runs) = 1
    /\ (\A p \in Callers : pc[p] = "returned") =>
           \E w \in runs : GlobalState = InitLoggerState(cfg[w])

\* C2 witness: two callers whose configurations differ in level, rendering mode,
\* output and withCaller have both returned, the second having won.
C2_Witness ==
    /\ \A p \in Callers : pc[p] = "returned"
    /\ runs = {2}
    /\ ResolveLevel(cfg[1].Level) # ResolveLevel(cfg[2].Level)
    /\ cfg[1].Pretty # cfg[2].Pretty
    /\ cfg[1].Output # cfg[2].Output
    /\ cfg[1].WithCaller # cfg[2].WithCaller
    /\ GlobalState = InitLoggerState(cfg[2])

\* C3: when an InitLogger call has returned, done is set and the global state is
\* completely the one the winner's configuration resolves to; a step of a caller
\* that did not enter the initialization body changes no global.
C3_NoEarlyReturn ==
    /\ [](\A p \in Callers : pc[p] = "returned" =>
              /\ done
              /\ \E w \in runs : GlobalState = InitLoggerState(cfg[w]))
    /\ [][\A p \in Callers : (pc'[p] # pc[p] /\ p \notin runs') => UNCHANGED globals]_vars

\* C3 witness: a caller that did not run the body has returned while the winner
\* still holds the mutex, the global state already complete.
C3_Witness ==
    /\ pc[1] = "returned"
    /\ 1 \notin runs
    /\ pc[2] = "unlock"
    /\ GlobalState = InitLoggerState(cfg[2])
    /\ GlobalState # BootState

\* C9: a level function that runs next to the winning InitLogger call has read
\* either the bootstrap values of the handle, the minimum level and the
\* withCaller flag, or the three values of the winning configuration.
C9_NoPartialConfig ==
    lpc = "done" =>
        \/ /\ obs.logger = BootLogger
           /\ obs.level = DebugLevel
           /\ obs.withCaller = FALSE
        \/ \E w \in runs :
              /\ obs.logger = InitLoggerState(cfg[w]).DefaultLogger
              /\ obs.level = InitLoggerState(cfg[w]).gLevel
              /\ obs.withCaller = InitLoggerState(cfg[w]).WithCaller

====
